---- MODULE Spec2Model ----
(***************************************************************************)
(* Model of the PBJ-Chess search bots: the Monte-Carlo tree search of      *)
(* agent1.py / main.py (classes MCTS, ChessNode, TyBot) and the negamax    *)
(* search of agent2.py (class TyBotNM).                                    *)
(*                                                                         *)
(* The chess rules (python-chess: legal moves, result(), fen()) are an     *)
(* external library.  They are represented by a fixed finite game graph    *)
(* `Game`: positions are numbered, a legal move of a position is named by  *)
(* the position it leads to, and the graph is acyclic as the FEN of a      *)
(* position carries the move counters.                                     *)
(*                                                                         *)
(* Rewards are Python floats in [0,1].  They are represented exactly as    *)
(* integer multiples of 1/RewardScale.                                     *)
(***************************************************************************)
EXTENDS Integers, Sequences, FiniteSets, TLC

(***************************************************************************)
(* Bounds of the model.                                                    *)
(***************************************************************************)
\* number of do_rollout calls one decision may perform before its deadline
MaxRollouts == 6
\* tolerance (in 1/1000) within which two UCT float scores count as a tie
UctTol == 3
\* largest search depth a TyBotNM is built with
MaxDepth == 4

(***************************************************************************)
(* Program constants.                                                      *)
(***************************************************************************)
SimCapAgent1 == 7
SimCapMain == 10
DefaultDepth == 4
MateScore == 10000
DepthPenalty == 100
SingleMoveScore == 69420
MaterialWeight == 100
InitialValue == -100000

\* unit of the reward arithmetic: every reward is k / RewardScale
RewardScale == 3 * 4 * 5
\* unit of the fixed-point UCT arithmetic
Milli == 10 * 10 * 10
\* the value None of a move
None == 0

(***************************************************************************)
(* The rules engine: a finite acyclic game.                                *)
(*   succ   : the positions the legal moves lead to                        *)
(*   result : board.result(): "*" while the game is undecided              *)
(*   turn   : board.turn, TRUE when White is to move                       *)
(*   w, b   : summed values of the white / black pieces other than kings   *)
(*   pos2   : twice the positional terms of TyBotNM.eval                   *)
(***************************************************************************)
Pos(s, r, t, w, b, p) ==
  [succ |-> s, result |-> r, turn |-> t, w |-> w, b |-> b, pos2 |-> p]

Corridor(p) ==
  Pos({p + 1}, "*", p % 2 = 0, IF p % 3 = 0 THEN 2 ELSE 1, 1,
      IF p % 2 = 0 THEN 3 ELSE -1)

Game ==
  << Pos({2, 3, 4}, "*", TRUE, 2, 1, 1),          \* 1
     Pos({5, 6}, "*", FALSE, 2, 1, -3),           \* 2
     Pos({6, 7}, "*", FALSE, 2, 1, 2),            \* 3
     Pos({}, "1-0", FALSE, 2, 1, 0),              \* 4  Black is checkmated
     Pos({}, "0-1", TRUE, 2, 1, 0),               \* 5  White is checkmated
     Pos({8}, "*", TRUE, 1, 2, 0),                \* 6  one legal move
     Pos({9}, "1/2-1/2", TRUE, 3, 0, 4),          \* 7  insufficient material
     Pos({10}, "*", FALSE, 1, 2, 1),              \* 8
     Pos({}, "1/2-1/2", FALSE, 3, 0, 0),          \* 9  stalemate
     Corridor(10), Corridor(11), Corridor(12), Corridor(13), Corridor(14),
     Corridor(15), Corridor(16), Corridor(17), Corridor(18), Corridor(19),
     Pos({}, "1/2-1/2", TRUE, 1, 1, 0),           \* 20 stalemate
     Pos({22, 23, 24}, "*", TRUE, 2, 1, 1),       \* 21 White mates in 1 or in 3
     Pos({}, "1-0", FALSE, 2, 1, 0),              \* 22 Black is checkmated
     Pos({25}, "*", FALSE, 2, 1, -1),             \* 23
     Pos({10}, "*", FALSE, 3, 0, 5),              \* 24
     Pos({26, 27}, "*", TRUE, 2, 1, 3),           \* 25 White mates in 1
     Pos({}, "1-0", FALSE, 2, 1, 0),              \* 26 Black is checkmated
     Pos({}, "1/2-1/2", FALSE, 2, 1, 0),          \* 27 stalemate
     Pos({25, 29}, "*", FALSE, 1, 2, -1),         \* 28 Black is mated in 2 or in 4
     Pos({30}, "*", TRUE, 2, 1, 1),               \* 29
     Pos({31}, "*", FALSE, 2, 1, -1),             \* 30
     Pos({32}, "*", TRUE, 2, 1, 1),               \* 31
     Pos({}, "1-0", FALSE, 2, 1, 0),              \* 32 Black is checkmated
     \* 33: 8/7k/8/8/8/8/QNRKBNRB/QQQQQQQQ w, nine queens, two rooks, two
     \* bishops and two knights against the bare king
     Pos({34, 35}, "*", TRUE, 103, 0, 7),         \* 33 White mates in 1 or in 3
     Pos({}, "1-0", FALSE, 103, 0, 0),            \* 34 Black is checkmated
     Pos({36}, "*", FALSE, 103, 0, 7),            \* 35
     Pos({37, 38}, "*", TRUE, 103, 0, 7),         \* 36 White mates in 1
     Pos({}, "1-0", FALSE, 103, 0, 0),            \* 37 Black is checkmated
     Pos({39}, "*", FALSE, 103, 0, 9),            \* 38
     Pos({40}, "*", TRUE, 103, 0, 9),             \* 39 White mates in 1
     Pos({}, "1-0", FALSE, 103, 0, 0) >>          \* 40 Black is checkmated

Positions == 1..Len(Game)

\* the positions a bot is asked to decide on
Roots == {1, 2, 3, 4, 6, 7, 15}

\* the positions TyBotNM.move is called on
NMRoots == Roots \cup {9, 21, 28, 33}

\* the depths a TyBotNM is built with: the default and the smaller ones
Depths == (1..MaxDepth) \cup {DefaultDepth}

\* the file whose bot runs: TyBot of agent1.py, TyBot of main.py, or TyBotNM
\* of agent2.py
Variants == {"agent1", "main", "agent2"}

legal_moves(p) == Game[p].succ

\* ChessNode.is_terminal
is_terminal(p) == Game[p].result /= "*"

\* ChessNode.find_children: one child node per legal move
find_children(p) == legal_moves(p)

\* value of a king in ChessNode.eval
KingValue(v) == IF v = "agent1" THEN 1 ELSE 0

\* ply cap of ChessNode.simulate
SimCap(v) == IF v = "agent1" THEN SimCapAgent1 ELSE SimCapMain

\* ChessNode.eval, in units of 1/RewardScale
ChessNodeEval(v, p) ==
  LET white == Game[p].w + KingValue(v)
      total == Game[p].w + Game[p].b + 2 * KingValue(v)
      score == (white * RewardScale) \div total
  IN  IF v = "agent1"
        THEN (IF Game[p].turn THEN RewardScale - score ELSE score)
        ELSE (IF Game[p].turn THEN score ELSE RewardScale - score)

\* reward() that rejects a position that is not terminal
reward_terminal_only(v, p) ==
  IF is_terminal(p)
    THEN [err |-> "",
          value |-> IF Game[p].result = "1/2-1/2" THEN RewardScale \div 2 ELSE 0]
    ELSE [err |-> "ValueError", value |-> 0]

\* ChessNode.reward, in units of 1/RewardScale: the call never raises
reward(v, p) ==
  IF is_terminal(p)
    THEN [err |-> "",
          value |-> IF Game[p].result = "1/2-1/2" THEN RewardScale \div 2 ELSE 0]
    ELSE [err |-> "", value |-> ChessNodeEval(v, p)]

(***************************************************************************)
(* ChessNode.simulate.  SimRuns(v, cur, count) is the set of random        *)
(* playouts from `cur` with `count` plies already played: where the        *)
(* playout stopped, how many plies it played, and whether it was cut by    *)
(* the ply cap.                                                            *)
(***************************************************************************)
RECURSIVE SimRuns(_, _, _)
SimRuns(v, cur, count) ==
  IF is_terminal(cur)
    THEN {[end |-> cur, plies |-> count, capped |-> FALSE]}
    ELSE UNION { IF count >= SimCap(v)
                   THEN {[end |-> c, plies |-> count + 1, capped |-> TRUE]}
                   ELSE SimRuns(v, c, count + 1)
                 : c \in legal_moves(cur) }

\* board.set_fen(fen): the position the board holds afterwards
set_fen(fen) == fen

\* simulate that returns the capped score without resetting the board
SimValue_cap_without_reset(v, start, run) ==
  IF run.capped
    THEN [err |-> "", value |-> ChessNodeEval(v, run.end),
          rcall |-> FALSE, rpos |-> start, rvalue |-> 0, fen |-> run.end]
    ELSE LET invert_reward == (run.plies % 2 = 0)
             r == reward(v, set_fen(start))
         IN  [err |-> r.err,
              value |-> IF invert_reward THEN RewardScale - r.value ELSE r.value,
              rcall |-> TRUE, rpos |-> set_fen(start), rvalue |-> r.value,
              fen |-> set_fen(start)]

\* what simulate returns for a playout `run` that started at `start`:
\*   rcall  whether reward() was called, rpos the position it was called on
\*   fen    the position of the node's board when simulate returns
SimValue(v, start, run) ==
  LET initial_fen == start
  IN  IF run.capped
        THEN [err |-> "", value |-> ChessNodeEval(v, run.end),
              rcall |-> FALSE, rpos |-> start, rvalue |-> 0,
              fen |-> set_fen(initial_fen)]
        ELSE LET invert_reward == (run.plies % 2 = 0)
                 \* self.board.set_fen(initial_fen) comes before self.reward()
                 r == reward(v, set_fen(initial_fen))
             IN  [err |-> r.err,
                  value |-> IF invert_reward THEN RewardScale - r.value
                                             ELSE r.value,
                  rcall |-> TRUE, rpos |-> set_fen(initial_fen),
                  rvalue |-> r.value, fen |-> set_fen(initial_fen)]

(***************************************************************************)
(* class MCTS.  N and Q are defaultdict(int): a key never written reads    *)
(* 0, so they are total functions here.  `children` is a dict whose keys   *)
(* are the expanded nodes.                                                 *)
(***************************************************************************)
\* MCTS(exploration_weight), doubled: TyBot passes 1 in agent1, 0.5 in main
ExplorationWeight2(v) == IF v = "agent1" THEN 2 ELSE 1

\* 1000 * ln(n), rounded, for n = 1..16
LnTable ==
  << 0, 693, 1099, 1386, 1609, 1792, 1946, 2079,
     2197, 2303, 2398, 2485, 2565, 2639, 2708, 2773 >>

RECURSIVE ISqrtBetween(_, _, _)
ISqrtBetween(x, lo, hi) ==
  IF lo >= hi THEN lo
  ELSE LET mid == (lo + hi + 1) \div 2
       IN  IF mid * mid <= x THEN ISqrtBetween(x, mid, hi)
                             ELSE ISqrtBetween(x, lo, mid - 1)

\* floor of the square root
ISqrt(x) == ISqrtBetween(x, 0, 2 * Milli)

\* uct(n) of _uct_select in 1/1000, for log_N_vertex = ln(Nv):
\*   Q[n] / N[n] + exploration_weight * sqrt(log_N_vertex / N[n])
uct(Nf, Qf, w2, Nv, n) ==
  (Qf[n] * Milli) \div (RewardScale * Nf[n])
    + (w2 * ISqrt((LnTable[Nv] * Milli) \div Nf[n])) \div 2

SetMax(S) == CHOOSE x \in S : \A y \in S : y <= x

\* MCTS._uct_select: the children `max` may return, or the exception raised.
\* The float scores are computed in fixed point, so every child within
\* UctTol of the best score is a possible result.
uct_select(ch, Nf, Qf, w2, node) ==
  IF \E n \in ch[node] : n \notin DOMAIN ch
    THEN [err |-> "AssertionError", nodes |-> {}]
  ELSE IF Nf[node] = 0
    THEN [err |-> "ValueError", nodes |-> {}]
  ELSE IF \E n \in ch[node] : Nf[n] = 0
    THEN [err |-> "ZeroDivisionError", nodes |-> {}]
  ELSE LET best == SetMax({uct(Nf, Qf, w2, Nf[node], n) : n \in ch[node]})
       IN  [err |-> "",
            nodes |-> {n \in ch[node] :
                         uct(Nf, Qf, w2, Nf[node], n) >= best - UctTol}]

\* a _select that forgets to append the unexplored child it picked
RECURSIVE select_without_append(_, _, _, _, _)
select_without_append(ch, Nf, Qf, w2, node) ==
  IF node \notin DOMAIN ch \/ ch[node] = {}
    THEN {[err |-> "", path |-> <<node>>]}
  ELSE LET unexplored == ch[node] \ DOMAIN ch
       IN  IF unexplored /= {}
             THEN {[err |-> "", path |-> <<node>>]}
             ELSE LET u == uct_select(ch, Nf, Qf, w2, node)
                  IN  IF u.err /= ""
                        THEN {[err |-> u.err, path |-> <<node>>]}
                        ELSE UNION { { [err |-> r.err,
                                        path |-> <<node>> \o r.path]
                                       : r \in select_without_append(
                                                 ch, Nf, Qf, w2, c) }
                                     : c \in u.nodes }

\* MCTS._select: every path the loop may return, or the exception raised
RECURSIVE select(_, _, _, _, _)
select(ch, Nf, Qf, w2, node) ==
  IF node \notin DOMAIN ch \/ ch[node] = {}
    THEN {[err |-> "", path |-> <<node>>]}
  ELSE LET unexplored == ch[node] \ DOMAIN ch
       IN  IF unexplored /= {}
             THEN {[err |-> "", path |-> <<node, n>>] : n \in unexplored}
             ELSE LET u == uct_select(ch, Nf, Qf, w2, node)
                  IN  IF u.err /= ""
                        THEN {[err |-> u.err, path |-> <<node>>]}
                        ELSE UNION { { [err |-> r.err,
                                        path |-> <<node>> \o r.path]
                                       : r \in select(ch, Nf, Qf, w2, c) }
                                     : c \in u.nodes }

\* an _expand that starts the dictionary anew: self.children = {node: ...}
expand_anew(ch, node) ==
  [n \in {node} |-> find_children(node)]

\* MCTS._expand
expand(ch, node) ==
  IF node \in DOMAIN ch
    THEN ch
    ELSE [n \in DOMAIN ch \cup {node} |->
            IF n = node THEN find_children(node) ELSE ch[n]]

\* _backpropagate that forgets to flip the reward between plies
RECURSIVE backpropagate_no_invert(_, _, _, _)
backpropagate_no_invert(Nf, Qf, path, r) ==
  IF path = <<>>
    THEN [N |-> Nf, Q |-> Qf]
    ELSE LET node == path[Len(path)]
         IN  backpropagate_no_invert([Nf EXCEPT ![node] = @ + 1],
                                     [Qf EXCEPT ![node] = @ + r],
                                     SubSeq(path, 1, Len(path) - 1), r)

\* _backpropagate that flips the reward by negating it
RECURSIVE backpropagate_negate(_, _, _, _)
backpropagate_negate(Nf, Qf, path, r) ==
  IF path = <<>>
    THEN [N |-> Nf, Q |-> Qf]
    ELSE LET node == path[Len(path)]
         IN  backpropagate_negate([Nf EXCEPT ![node] = @ + 1],
                                  [Qf EXCEPT ![node] = @ + r],
                                  SubSeq(path, 1, Len(path) - 1), -r)

\* _backpropagate that updates the leaf only
backpropagate_leaf_only(Nf, Qf, path, r) ==
  IF path = <<>>
    THEN [N |-> Nf, Q |-> Qf]
    ELSE LET node == path[Len(path)]
         IN  [N |-> [Nf EXCEPT ![node] = @ + 1],
              Q |-> [Qf EXCEPT ![node] = @ + r]]

\* _backpropagate that walks reversed(path[1:]) and so never reaches the root
backpropagate_skip_root(Nf, Qf, path, r) ==
  IF Len(path) <= 1
    THEN [N |-> Nf, Q |-> Qf]
    ELSE backpropagate_no_invert(Nf, Qf, SubSeq(path, 2, Len(path)), r)

\* MCTS._backpropagate: the statistics after walking reversed(path)
RECURSIVE backpropagate(_, _, _, _)
backpropagate(Nf, Qf, path, r) ==
  IF path = <<>>
    THEN [N |-> Nf, Q |-> Qf]
    ELSE LET node == path[Len(path)]
         IN  backpropagate([Nf EXCEPT ![node] = @ + 1],
                           [Qf EXCEPT ![node] = @ + r],
                           SubSeq(path, 1, Len(path) - 1),
                           RewardScale - r)

NoRun == [end |-> None, plies |-> 0, capped |-> FALSE]
NoSim ==
  [err |-> "", value |-> 0, rcall |-> FALSE, rpos |-> None, rvalue |-> 0,
   fen |-> None]

\* a rollout that may also be cut off by the deadline after _expand
do_rollout_interruptible(v, ch, Nf, Qf, node) ==
  { [err |-> "", children |-> expand(ch, s.path[Len(s.path)]),
     N |-> Nf, Q |-> Qf, path |-> s.path, run |-> NoRun, sim |-> NoSim,
     steps |-> <<"select", "expand">>]
    : s \in {t \in select(ch, Nf, Qf, ExplorationWeight2(v), node) : t.err = ""} }

\* MCTS.do_rollout: every outcome of one rollout from `node`, with the steps
\* it went through.  A node is hashed by the FEN of its board, so
\* _backpropagate finds the leaf under the position simulate left it in.
do_rollout(v, ch, Nf, Qf, node) ==
  UNION {
    IF s.err /= ""
      THEN {[err |-> s.err, children |-> ch, N |-> Nf, Q |-> Qf,
             path |-> s.path, run |-> NoRun, sim |-> NoSim,
             steps |-> <<"select">>]}
      ELSE LET leaf == s.path[Len(s.path)]
           IN  { LET sim == SimValue(v, leaf, run)
                     bp == backpropagate(Nf, Qf,
                                         [s.path EXCEPT ![Len(s.path)] = sim.fen],
                                         sim.value)
                 IN  IF sim.err /= ""
                       THEN [err |-> sim.err, children |-> expand(ch, leaf),
                             N |-> Nf, Q |-> Qf,
                             path |-> s.path, run |-> run, sim |-> sim,
                             steps |-> <<"select", "expand", "simulate">>]
                       ELSE [err |-> "", children |-> expand(ch, leaf),
                             N |-> bp.N, Q |-> bp.Q,
                             path |-> s.path, run |-> run, sim |-> sim,
                             steps |-> <<"select", "expand", "simulate",
                                         "backpropagate">>]
                 : run \in SimRuns(v, leaf, 0) }
    : s \in select(ch, Nf, Qf, ExplorationWeight2(v), node) }

\* ChessNode has no method find_random_child (neither has Node): the call
\* raises AttributeError
find_random_child(node) == [status |-> "error", err |-> "AttributeError", node |-> None]

\* score(n) that rates an unseen child float("inf") instead of float("-inf")
ScoreGeq_unseen_first(Nf, Qf, a, b) ==
  IF Nf[a] = 0 THEN TRUE
  ELSE IF Nf[b] = 0 THEN FALSE
  ELSE Qf[a] * Nf[b] >= Qf[b] * Nf[a]

\* score(n) of MCTS.choose compared as floats: a is scored at least as high as b
ScoreGeq(Nf, Qf, a, b) ==
  IF Nf[b] = 0 THEN TRUE
  ELSE IF Nf[a] = 0 THEN FALSE
  ELSE Qf[a] * Nf[b] >= Qf[b] * Nf[a]

\* choose without the test of node.is_terminal()
choose_no_terminal_test(ch, Nf, Qf, node) ==
  IF node \notin DOMAIN ch
    THEN {find_random_child(node)}
  ELSE IF ch[node] = {}
    THEN {[status |-> "error", err |-> "ValueError", node |-> None]}
  ELSE {[status |-> "ok", err |-> "", node |-> c]
          : c \in {c \in ch[node] : \A d \in ch[node] : ScoreGeq(Nf, Qf, c, d)}}

\* MCTS.choose: every outcome of the call
choose(ch, Nf, Qf, node) ==
  IF is_terminal(node)
    THEN {[status |-> "error", err |-> "RuntimeError", node |-> None]}
  ELSE IF node \notin DOMAIN ch
    THEN {find_random_child(node)}
  ELSE IF ch[node] = {}
    THEN {[status |-> "error", err |-> "ValueError", node |-> None]}
  ELSE {[status |-> "ok", err |-> "", node |-> c]
          : c \in {c \in ch[node] : \A d \in ch[node] : ScoreGeq(Nf, Qf, c, d)}}

(***************************************************************************)
(* class TyBotNM (agent2.py).  Scores are floats with halves; they are     *)
(* kept doubled.                                                           *)
(***************************************************************************)
\* TyBotNM.eval, doubled
NMEval2(p) ==
  IF Game[p].result /= "*"
    THEN (IF Game[p].result = "1/2-1/2" THEN 0
          ELSE IF Game[p].result = "0-1" THEN -(2 * MateScore)
          ELSE 2 * MateScore)
    ELSE 2 * MaterialWeight * (Game[p].w - Game[p].b) + Game[p].pos2

\* a conversion that rounds down (math.floor, //) instead of int()
IntOf2_floor(x2) == x2 \div 2

\* int(x) of a doubled float: truncation towards zero
IntOf2(x2) == IF x2 >= 0 THEN x2 \div 2 ELSE -((-x2) \div 2)

\* the base case of TyBotNM.negamax, doubled:
\*   color * self.eval(board) - depth * 100
LeafScore2(p, depth, color) ==
  color * NMEval2(p) - 2 * depth * DepthPenalty

\* the shared chess.Board of the negamax search: the stack of the positions
\* reached, the current position on top
top(b) == b[Len(b)]

\* board.push(move)
push(b, move) == Append(b, move)

\* a pop that is forgotten
pop_forgotten(b) == b

\* board.pop()
pop(b) == SubSeq(b, 1, Len(b) - 1)

\* TyBotNM.negamax(board, depth, color): the value (doubled), the list
\* best_moves and the board as the call leaves it.  negamax_loop is the
\* `for move in moves` loop with the moves `todo` still to try.
RECURSIVE negamax_frame(_, _, _), negamax_loop(_, _, _, _, _, _)
negamax_frame(b, depth, color) ==
  IF depth = 0 \/ Game[top(b)].result /= "*"
    THEN [value2 |-> LeafScore2(top(b), depth, color),
          best_moves |-> {}, board |-> b]
    ELSE negamax_loop(b, depth, color, legal_moves(top(b)), InitialValue, {})

negamax_loop(b, depth, color, todo, value, best_moves) ==
  IF todo = {}
    THEN [value2 |-> 2 * value, best_moves |-> best_moves, board |-> b]
    ELSE LET move == CHOOSE m \in todo : TRUE
             r == negamax_frame(push(b, move), depth - 1, -color)
             score == -IntOf2(r.value2)
         IN  negamax_loop(pop(r.board), depth, color, todo \ {move},
                          IF score > value THEN score ELSE value,
                          IF score > value THEN {move}
                          ELSE IF score = value THEN best_moves \cup {move}
                          ELSE best_moves)

\* first component of TyBotNM.negamax, doubled
NegamaxValue2(p, depth, color) == negamax_frame(<<p>>, depth, color).value2

\* the score the loop of negamax gives to `move` in position p
MoveScore(p, depth, color, move) ==
  -IntOf2(NegamaxValue2(move, depth - 1, -color))

\* TyBotNM.negamax: every (value, move) pair the call may return, with the
\* board as the call leaves it
negamax(p, depth, color) ==
  LET r == negamax_frame(<<p>>, depth, color)
  IN  IF depth = 0 \/ Game[p].result /= "*"
        THEN {[value2 |-> r.value2, move |-> None, board |-> r.board]}
        ELSE {[value2 |-> r.value2, move |-> m, board |-> r.board]
                : m \in r.best_moves}

\* TyBotNM.move(board)
TyBotNM_move(p, depth) ==
  IF Cardinality(legal_moves(p)) = 1
    THEN {[via |-> "single", value2 |-> 2 * SingleMoveScore, move |-> m,
           board |-> <<p>>]
            : m \in legal_moves(p)}
    ELSE {[via |-> "negamax", value2 |-> r.value2, move |-> r.move,
           board |-> r.board]
            : r \in negamax(p, depth, IF Game[p].turn THEN 1 ELSE -1)}

\* the test of TyBot.move that returns the only legal move without a search;
\* main.py has no such test
TyBot_single_move(v, p) == v = "agent1" /\ Cardinality(legal_moves(p)) = 1

(***************************************************************************)
(* State.                                                                  *)
(*   variant   which file's bot runs: "agent1", "main" or "agent2"         *)
(*   board     TyBot.board, the position the bot is to move in             *)
(*   pc        "idle", or "search" inside monte_carlo_tree_search          *)
(*   root      the root node of the current (or last) search               *)
(*   N,Q,children  the MCTS instance of the current (or last) search       *)
(*   rollouts  number of do_rollout calls made on that instance            *)
(*   last      the last do_rollout: the statistics before it, its path,    *)
(*             its playout and what simulate returned                      *)
(*   ret       what the last finished call returned or raised              *)
(*   log       the steps of the current (or last) monte_carlo_tree_search: *)
(*             "test" of the deadline, the four steps of a rollout,        *)
(*             "choose"                                                    *)
(*   dropped   the number of rollouts recorded in the MCTS instance that   *)
(*             the latest MCTS() replaced                                  *)
(***************************************************************************)
VARIABLES variant, board, pc, root, N, Q, children, rollouts, last, ret, log,
          dropped

vars ==
  <<variant, board, pc, root, N, Q, children, rollouts, last, ret, log,
    dropped>>

Zero == [p \in Positions |-> 0]
EmptyDict == [p \in {} |-> {}]

NoRollout ==
  [valid |-> FALSE, path |-> <<>>, N0 |-> Zero, Q0 |-> Zero,
   run |-> NoRun, sim |-> NoSim]

NoRet ==
  [op |-> "none", pos |-> None, via |-> "", status |-> "", err |-> "",
   move |-> None, value2 |-> 0, rollouts |-> 0, depth |-> 0, nmboard |-> <<>>]

\* a search that goes on with the dictionaries of the search before it
StaleTree == [N |-> N, Q |-> Q, children |-> children]

\* MCTS.__init__: Q, N and children of a new instance
FreshTree == [N |-> Zero, Q |-> Zero, children |-> EmptyDict]

Init ==
  /\ variant \in Variants
  /\ board \in Roots
  /\ pc = "idle"
  /\ root = board
  /\ N = Zero
  /\ Q = Zero
  /\ children = EmptyDict
  /\ rollouts = 0
  /\ last = NoRollout
  /\ ret = NoRet
  /\ log = <<>>
  /\ dropped = 0

\* TyBot.update_fen
update_fen(fen) ==
  /\ pc = "idle"
  /\ board' = fen
  /\ UNCHANGED <<variant, pc, root, N, Q, children, rollouts, last, ret, log,
                 dropped>>

\* TyBot.move up to the first test of the deadline: the only legal move is
\* returned at once, else monte_carlo_tree_search builds MCTS() and the root
TyBot_move ==
  /\ variant \in {"agent1", "main"}
  /\ pc = "idle"
  /\ IF TyBot_single_move(variant, board)
       THEN /\ ret' = [op |-> "move", pos |-> board, via |-> "single",
                       status |-> "ok", err |-> "",
                       move |-> CHOOSE m \in legal_moves(board) : TRUE,
                       value2 |-> 0, rollouts |-> 0, depth |-> 0, nmboard |-> <<>>]
            /\ UNCHANGED <<pc, root, N, Q, children, rollouts, last, log,
                           dropped>>
       ELSE /\ pc' = "search"
            /\ root' = board
            /\ N' = FreshTree.N
            /\ Q' = FreshTree.Q
            /\ children' = FreshTree.children
            /\ rollouts' = 0
            /\ last' = NoRollout
            /\ ret' = NoRet
            /\ log' = <<>>
            /\ dropped' = rollouts
  /\ UNCHANGED <<variant, board>>

\* one iteration of the loop of monte_carlo_tree_search: the deadline has not
\* passed and tree.do_rollout(root) runs to its end
search_rollout ==
  /\ pc = "search"
  /\ rollouts < MaxRollouts
  /\ \E o \in do_rollout(variant, children, N, Q, root) :
       /\ children' = o.children
       /\ N' = o.N
       /\ Q' = o.Q
       /\ last' = [valid |-> o.err = "", path |-> o.path, N0 |-> N, Q0 |-> Q,
                   run |-> o.run, sim |-> o.sim]
       /\ log' = log \o <<"test">> \o o.steps
       /\ IF o.err = ""
            THEN /\ rollouts' = rollouts + 1
                 /\ UNCHANGED <<pc, ret>>
            ELSE /\ pc' = "idle"
                 /\ ret' = [op |-> "move", pos |-> root, via |-> "rollout",
                            status |-> "error", err |-> o.err, move |-> None,
                            value2 |-> 0, rollouts |-> rollouts, depth |-> 0, nmboard |-> <<>>]
                 /\ UNCHANGED rollouts
  /\ UNCHANGED <<variant, board, root, dropped>>

\* the deadline has passed: tree.choose(root), and move() returns its last_move
search_choose ==
  /\ pc = "search"
  /\ \E o \in choose(children, N, Q, root) :
       ret' = [op |-> "move", pos |-> root, via |-> "choose",
               status |-> o.status, err |-> o.err, move |-> o.node,
               value2 |-> 0, rollouts |-> rollouts, depth |-> 0, nmboard |-> <<>>]
  /\ pc' = "idle"
  /\ log' = log \o <<"test", "choose">>
  /\ UNCHANGED <<variant, board, root, N, Q, children, rollouts, last,
                 dropped>>

\* TyBotNM(depth = d).move(board) of agent2.py; ret.nmboard is the board the
\* caller holds after the call
TyBotNM_move_call(p, d) ==
  /\ variant = "agent2"
  /\ pc = "idle"
  /\ \E o \in TyBotNM_move(p, d) :
       ret' = [op |-> "nm_move", pos |-> p, via |-> o.via, status |-> "ok",
               err |-> "", move |-> o.move, value2 |-> o.value2,
               rollouts |-> 0, depth |-> d, nmboard |-> o.board]
  /\ UNCHANGED <<variant, board, pc, root, N, Q, children, rollouts, last,
                 log, dropped>>

Next ==
  \/ \E fen \in Roots : update_fen(fen)
  \/ TyBot_move
  \/ search_rollout
  \/ search_choose
  \/ \E p \in NMRoots, d \in Depths : TyBotNM_move_call(p, d)

Spec == Init /\ [][Next]_vars

(***************************************************************************)
(* Properties.                                                             *)
(***************************************************************************)
RECURSIVE SumOver(_, _)
SumOver(f, S) ==
  IF S = {} THEN 0
  ELSE LET x == CHOOSE y \in S : TRUE IN f[x] + SumOver(f, S \ {x})

\* C1: choose(root) on a terminal root raises (RuntimeError) and returns no
\* node, whatever rollouts came before
C1_ChooseTerminalRaises ==
  (ret.via = "choose" /\ is_terminal(ret.pos))
    => (ret.status = "error" /\ ret.err = "RuntimeError" /\ ret.move = None)

C1_Witness ==
  /\ ret.via = "choose"
  /\ is_terminal(ret.pos)
  /\ ret.rollouts >= 2
  /\ ret.pos \in DOMAIN children /\ children[ret.pos] /= {}
  /\ ret.err = "RuntimeError"

\* C2: choose(root) on a non-terminal root that is no key of children returns
\* a legal successor of root and does not fail
C2_UnexpandedRootReturnsSuccessor ==
  (ret.via = "choose" /\ ~is_terminal(ret.pos) /\ ret.pos \notin DOMAIN children)
    => (ret.status = "ok" /\ ret.move \in legal_moves(ret.pos))

\* C3: a playout of simulate that reaches a terminal position before the ply
\* cap returns the reward r of that terminal position when the number of plies
\* is odd and 1 - r when it is even
C3_FullPlayoutUsesTerminalReward ==
  (last.valid /\ ~last.run.capped)
    => LET r == reward(variant, last.run.end).value
       IN  last.sim.value = IF last.run.plies % 2 = 1 THEN r ELSE RewardScale - r

\* C4: on a non-terminal position with exactly one legal move every move entry
\* point returns that move without a rollout and without a negamax call: no
\* rollout is made from such a position, and the call returns the move
C4_SingleMoveWithoutSearch ==
  /\ ~(/\ pc = "search"
        /\ rollouts >= 1
        /\ ~is_terminal(root)
        /\ Cardinality(legal_moves(root)) = 1)
  /\ (/\ ret.op \in {"move", "nm_move"}
      /\ ~is_terminal(ret.pos)
      /\ Cardinality(legal_moves(ret.pos)) = 1)
       => (/\ ret.status = "ok"
           /\ ret.move \in legal_moves(ret.pos)
           /\ ret.via = "single"
           /\ ret.rollouts = 0)

\* C5 as claimed: after n >= 1 rollouts from a non-terminal root the visit
\* counts of the root's children sum to n
C5_ChildVisitsSumToN ==
  (rollouts >= 1 /\ ~is_terminal(root))
    => (root \in DOMAIN children /\ SumOver(N, children[root]) = rollouts)

\* C5 as amended: after n >= 1 rollouts from a non-terminal root the visit
\* counts of the root's children sum to n - 1 (the first rollout ends at the
\* root and visits no child)
C5_ChildVisitsSumToNMinus1 ==
  (rollouts >= 1 /\ ~is_terminal(root))
    => (root \in DOMAIN children /\ SumOver(N, children[root]) = rollouts - 1)

C5_Witness ==
  /\ rollouts >= 4
  /\ ~is_terminal(root)
  /\ Len(last.path) >= 3
  /\ SumOver(N, children[root]) = rollouts - 1

\* C6: after n rollouts on a fresh MCTS instance N[root] = n
C6_RootVisitsEqualRollouts == N[root] = rollouts

C6_Witness == rollouts >= 4 /\ Len(last.path) >= 3 /\ N[root] = rollouts

\* C7: choose(root) on an expanded non-terminal root returns a child of root;
\* when some child was visited the returned child was visited and no visited
\* child has a higher average reward Q/N
C7_ChooseBestAverage ==
  (ret.via = "choose" /\ ~is_terminal(ret.pos) /\ ret.pos \in DOMAIN children)
    => /\ ret.status = "ok"
       /\ ret.move \in children[ret.pos]
       /\ (\E c \in children[ret.pos] : N[c] >= 1)
            => /\ N[ret.move] >= 1
               /\ \A c \in children[ret.pos] :
                    N[c] >= 1 => Q[ret.move] * N[c] >= Q[c] * N[ret.move]

C7_Witness ==
  /\ ret.via = "choose" /\ ret.status = "ok"
  /\ \E c \in children[ret.pos] : N[c] = 0
  /\ \E c \in children[ret.pos] :
       N[c] >= 1 /\ Q[ret.move] * N[c] > Q[c] * N[ret.move]

\* index of node p on the last path (0 when p is not on it)
PathIndex(p) ==
  IF \E i \in 1..Len(last.path) : last.path[i] = p
    THEN CHOOSE i \in 1..Len(last.path) : last.path[i] = p
    ELSE 0

PathDistinct ==
  \A i, j \in 1..Len(last.path) : last.path[i] = last.path[j] => i = j

\* C8: _backpropagate(path, r) adds 1 to N of every node of the path, adds r,
\* 1-r, r, ... to Q from the leaf towards the root, and leaves N and Q of every
\* other node unchanged
C8_BackpropagateAlternates ==
  (last.valid /\ PathDistinct)
    => \A p \in Positions :
         LET i == PathIndex(p)
             r == last.sim.value
         IN  IF i = 0
               THEN N[p] = last.N0[p] /\ Q[p] = last.Q0[p]
               ELSE /\ N[p] = last.N0[p] + 1
                    /\ Q[p] = last.Q0[p]
                         + (IF (Len(last.path) - i) % 2 = 0
                              THEN r ELSE RewardScale - r)

C8_Witness ==
  /\ last.valid /\ PathDistinct
  /\ Len(last.path) >= 3
  /\ 2 * last.sim.value /= RewardScale
  /\ Q[last.path[1]] = last.Q0[last.path[1]] + last.sim.value
  /\ Q[last.path[2]] = last.Q0[last.path[2]] + RewardScale - last.sim.value

\* C9: TyBotNM.move on a terminal position fails; it returns no result
C9_NegamaxTerminalFails ==
  (ret.op = "nm_move" /\ is_terminal(ret.pos)) => ret.status = "error"

\* C10 as claimed: reward() called on a non-terminal position raises
C10_RewardNonTerminalRaises ==
  (last.sim.rcall /\ ~is_terminal(last.sim.rpos)) => last.sim.err /= ""

\* C10 as amended: reward() called on a non-terminal position does not raise;
\* it returns the heuristic eval() of the position, a value in [0,1]
C10_RewardNonTerminalIsEval ==
  (last.sim.rcall /\ ~is_terminal(last.sim.rpos))
    => /\ last.sim.err = ""
       /\ last.sim.rvalue = ChessNodeEval(variant, last.sim.rpos)
       /\ 0 <= last.sim.rvalue /\ last.sim.rvalue <= RewardScale

C10_Witness ==
  /\ last.valid
  /\ last.sim.rcall /\ ~is_terminal(last.sim.rpos)
  /\ last.run.plies >= 1 /\ is_terminal(last.run.end)
  /\ last.sim.rvalue = ChessNodeEval(variant, last.sim.rpos)

\* the last finished call was TyBotNM.move and it ran negamax
RanNegamax == ret.op = "nm_move" /\ ret.via = "negamax"

\* side-to-move sign TyBotNM.move passes for position p
ColorOf(p) == IF Game[p].turn THEN 1 ELSE -1

\* half of a doubled score, truncated towards zero
TruncatedHalf(x2) == IF x2 >= 0 THEN x2 \div 2 ELSE -((-x2) \div 2)

\* exhaustive depth-d minimax (in negamax form, no pruning, no rounding) over
\* the leaf scores color * eval - depth * 100, doubled
RECURSIVE Minimax2(_, _, _)
Minimax2(p, d, color) ==
  IF d = 0 \/ Game[p].result /= "*"
    THEN LeafScore2(p, d, color)
    ELSE SetMax({ -Minimax2(m, d - 1, -color) : m \in legal_moves(p) })

\* C11 as claimed: on a non-terminal position negamax returns the score of
\* exhaustive minimax and a move that attains it
C11_NegamaxIsMinimax ==
  (RanNegamax /\ ~is_terminal(ret.pos))
    => LET mm == Minimax2(ret.pos, ret.depth, ColorOf(ret.pos))
       IN  /\ ret.value2 = mm
           /\ ret.move \in legal_moves(ret.pos)
           /\ -Minimax2(ret.move, ret.depth - 1, -ColorOf(ret.pos)) = mm

\* C11 as amended: on a non-terminal position negamax returns the score of
\* exhaustive minimax truncated towards zero to an integer, and a move whose
\* minimax score truncates to that integer
C11_NegamaxIsTruncatedMinimax ==
  (RanNegamax /\ ~is_terminal(ret.pos))
    => LET mm == Minimax2(ret.pos, ret.depth, ColorOf(ret.pos))
       IN  /\ ret.value2 = 2 * TruncatedHalf(mm)
           /\ ret.move \in legal_moves(ret.pos)
           /\ TruncatedHalf(-Minimax2(ret.move, ret.depth - 1, -ColorOf(ret.pos)))
                = TruncatedHalf(mm)

C11_Witness ==
  /\ RanNegamax /\ ~is_terminal(ret.pos)
  /\ ret.depth >= 2
  /\ Minimax2(ret.pos, ret.depth, ColorOf(ret.pos)) % 2 = 1
  /\ ret.value2 = 2 * TruncatedHalf(Minimax2(ret.pos, ret.depth, ColorOf(ret.pos)))
  /\ Cardinality(legal_moves(ret.pos)) >= 2

\* the side to move in position q is checkmated
Checkmated(q) ==
  \/ Game[q].result = "1-0" /\ ~Game[q].turn
  \/ Game[q].result = "0-1" /\ Game[q].turn

SetMin(S) == CHOOSE x \in S : \A y \in S : x <= y

\* the forced result of position p for the side to move, by the rules of the
\* game alone: "loss" / "win" in `plies` plies under best play, else "none"
RECURSIVE Forced(_)
Forced(p) ==
  IF Checkmated(p) THEN [kind |-> "loss", plies |-> 0]
  ELSE IF is_terminal(p) \/ legal_moves(p) = {} THEN [kind |-> "none", plies |-> 0]
  ELSE LET after == {Forced(c) : c \in legal_moves(p)}
           lost == {f \in after : f.kind = "loss"}
       IN  IF lost /= {}
             THEN [kind |-> "win", plies |-> 1 + SetMin({f.plies : f \in lost})]
           ELSE IF \A f \in after : f.kind = "win"
             THEN [kind |-> "loss", plies |-> 1 + SetMax({f.plies : f \in after})]
           ELSE [kind |-> "none", plies |-> 0]

\* C12: when the side to move has a move that checkmates at once, the move
\* TyBotNM returns at any depth >= 1 is a move that checkmates at once
C12_MateInOneIsPlayed ==
  (/\ ret.op = "nm_move"
   /\ ~is_terminal(ret.pos)
   /\ \E m \in legal_moves(ret.pos) : Checkmated(m))
    => (ret.move \in legal_moves(ret.pos) /\ Checkmated(ret.move))

\* C17: in the position negamax was run on, of two moves that force a win
\* within the search depth the one that wins in fewer plies has the strictly
\* higher score, and of two moves that lose by force within the search depth
\* the one that loses in more plies has the strictly higher score
C17_FasterWinSlowerLoss ==
  (RanNegamax /\ ~is_terminal(ret.pos))
    => \A m1, m2 \in legal_moves(ret.pos) :
         LET f1 == Forced(m1)
             f2 == Forced(m2)
             s1 == MoveScore(ret.pos, ret.depth, ColorOf(ret.pos), m1)
             s2 == MoveScore(ret.pos, ret.depth, ColorOf(ret.pos), m2)
         IN  /\ (/\ f1.kind = "loss" /\ f2.kind = "loss"
                 /\ f1.plies < f2.plies /\ f2.plies + 1 <= ret.depth)
                  => s1 > s2
             /\ (/\ f1.kind = "win" /\ f2.kind = "win"
                 /\ f1.plies > f2.plies /\ f1.plies + 1 <= ret.depth)
                  => s1 > s2

\* the frames (position, remaining depth, color) of the negamax call on
\* (p, depth, color): the call itself and its recursive calls
RECURSIVE Frames(_, _, _)
Frames(p, depth, color) ==
  {<<p, depth, color>>}
    \cup (IF depth = 0 \/ Game[p].result /= "*"
            THEN {}
            ELSE UNION {Frames(m, depth - 1, -color) : m \in legal_moves(p)})

\* C18: a drawn terminal position is scored exactly 0 by the base case of
\* negamax, at every remaining depth and for either side to move
C18_DrawScoresZero ==
  ret.op = "nm_move" /\ ret.via = "negamax"
    => \A f \in Frames(ret.pos, ret.depth, ColorOf(ret.pos)) :
         Game[f[1]].result = "1/2-1/2"
           => negamax_frame(<<f[1]>>, f[2], f[3]).value2 = 0

\* C19: every call of negamax, at every recursion level, returns with the
\* shared board in the position it had on entry
C19_NegamaxRestoresBoard ==
  ret.op = "nm_move"
    => /\ ret.nmboard = <<ret.pos>>
       /\ ret.via = "negamax"
            => \A f \in Frames(ret.pos, ret.depth, ColorOf(ret.pos)) :
                 negamax_frame(<<ret.pos, f[1]>>, f[2], f[3]).board
                   = <<ret.pos, f[1]>>

C19_Witness ==
  /\ RanNegamax /\ ~is_terminal(ret.pos)
  /\ ret.depth >= 3
  /\ Cardinality(legal_moves(ret.pos)) >= 2
  /\ Cardinality(Frames(ret.pos, ret.depth, ColorOf(ret.pos))) >= 6
  /\ ret.nmboard = <<ret.pos>>

\* C20: simulate leaves the node's position as it found it on both return
\* paths, so the node is still found under its key in N, Q and children
C20_SimulateRestoresPosition ==
  last.valid
    => LET leaf == last.path[Len(last.path)]
       IN  /\ last.sim.fen = leaf
           /\ leaf \in DOMAIN children
           /\ N[leaf] = last.N0[leaf] + 1

\* a playout cut by the ply cap, ending away from the node
C20_Witness ==
  /\ last.valid
  /\ last.run.capped
  /\ last.run.end /= last.path[Len(last.path)]
  /\ last.sim.fen = last.path[Len(last.path)]

\* a playout that reached a terminal position, ending away from the node
C20_WitnessFull ==
  /\ last.valid
  /\ ~last.run.capped /\ last.run.plies >= 2
  /\ last.sim.fen = last.path[Len(last.path)]

\* the steps of a search are those of the loop of monte_carlo_tree_search:
\* the deadline is tested first and then only after a whole rollout, a
\* rollout starts only after a test, choose comes last and after a test
LoopOrder(l) ==
  \A i \in 1..Len(l) :
    /\ l[i] = "test"
         => \/ i = 1
            \/ /\ i >= 6
               /\ SubSeq(l, i - 5, i - 1)
                    = <<"test", "select", "expand", "simulate", "backpropagate">>
    /\ l[i] = "select" => (i > 1 /\ l[i - 1] = "test")
    /\ l[i] = "expand" => (i > 1 /\ l[i - 1] = "select")
    /\ l[i] = "simulate" => (i > 1 /\ l[i - 1] = "expand")
    /\ l[i] = "backpropagate" => (i > 1 /\ l[i - 1] = "simulate")
    /\ l[i] = "choose" => (i = Len(l) /\ i > 1 /\ l[i - 1] = "test")

\* C13: the deadline is tested only between rollouts, every rollout that
\* starts runs select, expand, simulate and backpropagate before the next
\* test, and choose is called once, after the loop has ended
C13_DeadlineBetweenRollouts ==
  /\ LoopOrder(log)
  /\ pc = "search" => \A i \in 1..Len(log) : log[i] /= "choose"
  /\ (ret.op = "move" /\ ret.via = "choose")
       => /\ Cardinality({i \in 1..Len(log) : log[i] = "choose"}) = 1
          /\ Cardinality({i \in 1..Len(log) : log[i] = "test"})
               = ret.rollouts + 1
          /\ Len(log) = 5 * ret.rollouts + 2

C13_Witness ==
  /\ ret.op = "move" /\ ret.via = "choose" /\ ret.status = "ok"
  /\ ret.rollouts >= 3
  /\ log[Len(log)] = "choose"
  /\ SubSeq(log, 1, 6)
       = <<"test", "select", "expand", "simulate", "backpropagate", "test">>

\* C14: a decision starts from empty N, Q and children, whatever the
\* decisions before it recorded, and holds only what its own rollouts added
C14_DecisionStartsEmpty ==
  pc = "search"
    => /\ rollouts = 0 => (N = Zero /\ Q = Zero /\ children = EmptyDict)
       /\ \A p \in Positions : N[p] <= rollouts
       /\ Cardinality(DOMAIN children) <= rollouts

\* a decision that starts after one that recorded statistics
C14_Witness ==
  /\ pc = "search" /\ rollouts = 0
  /\ dropped >= 2
  /\ N = Zero /\ Q = Zero /\ children = EmptyDict

\* the results _select(root) can give in the current state of the search
NextSelect == select(children, N, Q, ExplorationWeight2(variant), root)

\* the nodes _uct_select is invoked on along the way of result r of _select:
\* those left for a child that was not popped from `unexplored`, and the one
\* whose call raised
UctSelectCalls(r) ==
  {r.path[i] : i \in {j \in 1..(Len(r.path) - 1) :
                        r.path[j + 1] \in DOMAIN children}}
    \cup (IF r.err /= "" THEN {r.path[Len(r.path)]} ELSE {})

\* C15: whenever _uct_select(node) is invoked in a search, all children of
\* node are keys of children, N[node] >= 1 and N[c] >= 1 for every child c,
\* and the call raises nothing
C15_UctSelectPrecondition ==
  pc = "search"
    => \A r \in NextSelect :
         /\ r.err = ""
         /\ \A node \in UctSelectCalls(r) :
              /\ node \in DOMAIN children
              /\ children[node] /= {}
              /\ children[node] \subseteq DOMAIN children
              /\ N[node] >= 1
              /\ \A c \in children[node] : N[c] >= 1
              /\ uct_select(children, N, Q, ExplorationWeight2(variant),
                            node).err = ""

\* a search whose next _select calls _uct_select on two levels
C15_Witness ==
  /\ pc = "search"
  /\ \E r \in NextSelect :
       /\ r.err = ""
       /\ Cardinality(UctSelectCalls(r)) >= 2
       /\ \E node \in UctSelectCalls(r) : Cardinality(children[node]) >= 2

\* C16: a path returned by _select(root) starts at root, follows children,
\* has only expanded nodes with children before its last element, and ends
\* in an unexplored or a terminal node; it visits no position twice
C16_SelectPath ==
  pc = "search"
    => \A r \in NextSelect :
         r.err = ""
           => /\ Len(r.path) >= 1
              /\ r.path[1] = root
              /\ \A i \in 1..(Len(r.path) - 1) :
                   /\ r.path[i] \in DOMAIN children
                   /\ children[r.path[i]] /= {}
                   /\ r.path[i + 1] \in children[r.path[i]]
              /\ LET end == r.path[Len(r.path)]
                 IN  end \notin DOMAIN children \/ children[end] = {}
              /\ \A i, j \in 1..Len(r.path) : r.path[i] = r.path[j] => i = j
              /\ Len(r.path) <= Cardinality(Positions)

\* a next path of three nodes that ends in an unexplored node, and one that
\* ends in a terminal node
C16_Witness ==
  /\ pc = "search"
  /\ \E r \in NextSelect :
       /\ r.err = "" /\ Len(r.path) >= 3
       /\ r.path[Len(r.path)] \notin DOMAIN children
  /\ \E r \in NextSelect :
       /\ r.err = "" /\ Len(r.path) >= 2
       /\ r.path[Len(r.path)] \in DOMAIN children
       /\ children[r.path[Len(r.path)]] = {}

\* C21: every reward simulate returns lies in [0, 1], and 0 <= Q[node] <=
\* N[node] for every node (Q is kept in units of 1 / RewardScale)
C21_QBetweenZeroAndN ==
  /\ last.valid => (0 <= last.sim.value /\ last.sim.value <= RewardScale)
  /\ \A p \in Positions : 0 <= Q[p] /\ Q[p] <= RewardScale * N[p]

\* a tree with a node visited several times whose Q is strictly inside the
\* bounds, a visited node with Q = N and a reward strictly between 0 and 1
C21_Witness ==
  /\ pc = "search" /\ rollouts >= 3
  /\ last.valid /\ 0 < last.sim.value /\ last.sim.value < RewardScale
  /\ \E p \in Positions :
       N[p] >= 2 /\ 0 < Q[p] /\ Q[p] < RewardScale * N[p]
  /\ \E p \in Positions : N[p] >= 1 /\ Q[p] = RewardScale * N[p]

\* C22: a do_rollout adds at most one key to children, the leaf of its path,
\* leaves the set recorded for every node already expanded as it was, and
\* decreases no N
C22_RolloutOnlyAdds ==
  [][(pc = "search" /\ rollouts' = rollouts + 1)
       => /\ DOMAIN children \subseteq DOMAIN children'
          /\ (DOMAIN children') \ (DOMAIN children)
               \subseteq {last'.path[Len(last'.path)]}
          /\ \A n \in DOMAIN children : children'[n] = children[n]
          /\ \A p \in Positions : N'[p] >= N[p]]_vars

\* a search after a rollout that added a key to a tree that had some, and
\* one after a rollout that added none
C22_Witness ==
  /\ pc = "search" /\ last.valid /\ rollouts >= 3
  /\ Cardinality(DOMAIN children) >= 2
  /\ last.path[Len(last.path)] \in DOMAIN children
  /\ last.N0[last.path[Len(last.path)]] = 0

C22_WitnessNoNewKey ==
  /\ pc = "search" /\ last.valid /\ rollouts >= 3
  /\ last.N0[last.path[Len(last.path)]] >= 1
  /\ Cardinality(DOMAIN children) < rollouts

====
